---- MODULE Spec2Model ----
(***************************************************************************)
(* A model of pytransform/rotations.py: conversions between rotation       *)
(* matrices, quaternions, axis-angle and Euler angles, quaternion algebra, *)
(* slerp, sampling and the assertion helpers.                              *)
(*                                                                         *)
(* Numbers.  The library computes in IEEE doubles.  The model computes     *)
(* exactly in the field Q(sqrt 3) extended by +Inf, -Inf and NaN, so that  *)
(* every division by zero the code can perform produces what numpy         *)
(* produces (x/0 = +-Inf, 0/0 = Inf*0 = Inf-Inf = NaN).  A number is a     *)
(* triple <<p, q, d>> standing for (p + q*sqrt(3)) / d, in lowest terms,   *)
(* d > 0; d = 0 marks the non-finite values.  Rounding error is not        *)
(* modelled.                                                               *)
(*                                                                         *)
(* Angles are stored in units of pi/6 (so np.pi is the number 6): every    *)
(* multiple of pi/6 has its sine and cosine in Q(sqrt 3).  Applying a      *)
(* function outside the domain where its value is in Q(sqrt 3) is an       *)
(* evaluation error, never a silently wrong value.                         *)
(***************************************************************************)
EXTENDS Integers, Sequences, FiniteSets, TLC

VARIABLES pc, inp, out, rs

vars == <<pc, inp, out, rs>>

---------------------------------------------------------------------------
(* Bounds of the model.                                                    *)

\* 3-vectors handed to q_prod_vector have coordinates in -1..MaxCoord
MaxCoord == 1
\* non-unit axes and quaternions are unit ones scaled by 1..MaxScale
MaxScale == 2
\* basis indices handed to matrix_from_angle range over -1..MaxBasis
MaxBasis == 3
\* number of sampling calls a caller makes
MaxCalls == 3

---------------------------------------------------------------------------
(* Exact arithmetic in Q(sqrt 3) with Inf and NaN.                         *)

Abs(n) == IF n < 0 THEN -n ELSE n

RECURSIVE Gcd(_, _)
Gcd(a, b) == IF b = 0 THEN a ELSE Gcd(b, a % b)

\* sign of p + q*sqrt(3).  When p and q differ in sign the number is
\* multiplied by 2 + sqrt(3) > 0, which brings it away from 0 and makes p and
\* q smaller, until the squares can be compared.
RECURSIVE SgnSurd(_, _)
SgnSurd(p, q) ==
  IF p = 0 /\ q = 0 THEN 0
  ELSE IF p >= 0 /\ q >= 0 THEN 1
  ELSE IF p <= 0 /\ q <= 0 THEN -1
  ELSE IF Abs(p) > 20000 \/ Abs(q) > 20000 THEN SgnSurd(2 * p + 3 * q, p + 2 * q)
  ELSE IF p > 0 THEN (IF p * p > 3 * q * q THEN 1 ELSE -1)
  ELSE (IF 3 * q * q > p * p THEN 1 ELSE -1)

NaN == <<0, 0, 0>>
PosInf == <<1, 0, 0>>
NegInf == <<-1, 0, 0>>

\* (p + q*sqrt 3)/d in lowest terms
Mk(p, q, d) ==
  IF d = 0 THEN <<SgnSurd(p, q), 0, 0>>
  ELSE LET g == Gcd(Gcd(Abs(p), Abs(q)), Abs(d))
           s == IF d < 0 THEN -1 ELSE 1
       IN <<(s * p) \div g, (s * q) \div g, (s * d) \div g>>

I(n) == <<n, 0, 1>>
Rat(n, d) == Mk(n, 0, d)
Zero == I(0)
One == I(1)
Two == I(2)
Half == Rat(1, 2)
Quarter == Rat(1, 4)

IsNaN(x) == x = NaN
IsFinite(x) == x[3] # 0
Sgn(x) == IF IsFinite(x) THEN SgnSurd(x[1], x[2]) ELSE x[1]

Neg(x) == <<-x[1], -x[2], x[3]>>

Add(x, y) ==
  IF IsFinite(x) /\ IsFinite(y)
    THEN Mk(x[1] * y[3] + y[1] * x[3], x[2] * y[3] + y[2] * x[3], x[3] * y[3])
  ELSE IF IsNaN(x) \/ IsNaN(y) THEN NaN
  ELSE IF IsFinite(y) THEN x
  ELSE IF IsFinite(x) THEN y
  ELSE IF x = y THEN x ELSE NaN

Sub(x, y) == Add(x, Neg(y))

Mul(x, y) ==
  IF IsFinite(x) /\ IsFinite(y)
    THEN Mk(x[1] * y[1] + 3 * x[2] * y[2], x[1] * y[2] + x[2] * y[1], x[3] * y[3])
  ELSE IF IsNaN(x) \/ IsNaN(y) THEN NaN
  ELSE <<Sgn(x) * Sgn(y), 0, 0>>

\* 1/x as numpy computes it: 1/0 is +Inf, 1/Inf is 0
Inv(x) ==
  IF IsFinite(x)
    THEN IF Sgn(x) = 0 THEN PosInf
         ELSE Mk(x[3] * x[1], -(x[3] * x[2]), x[1] * x[1] - 3 * x[2] * x[2])
  ELSE IF IsNaN(x) THEN NaN
  ELSE Zero

\* x / y on numpy floats: a zero divisor gives +-Inf or NaN with a warning
Div(x, y) == Mul(x, Inv(y))

\* x < y; false when either is NaN
Less(x, y) == ~IsNaN(x) /\ ~IsNaN(y) /\ Sgn(Sub(y, x)) = 1
\* x >= y; false when either is NaN
GreaterEq(x, y) == ~IsNaN(x) /\ ~IsNaN(y) /\ Sgn(Sub(x, y)) >= 0
\* x == y on floats: NaN equals nothing
NumEq(x, y) == ~IsNaN(x) /\ ~IsNaN(y) /\ x = y

AbsNum(x) == IF Sgn(x) < 0 THEN Neg(x) ELSE x

\* the integer square root of a perfect square
ISqrt(n) == CHOOSE s \in 0..n : s * s = n
IsSquare(n) == \E s \in 0..n : s * s = n

\* np.sqrt: NaN for a negative argument; exact on p/d with p*d = s^2 or 3*s^2
Sqrt(x) ==
  IF IsNaN(x) \/ Sgn(x) < 0 THEN NaN
  ELSE IF ~IsFinite(x) THEN PosInf
  ELSE LET n == x[1] * x[3]
       IN CASE x[2] = 0 /\ IsSquare(n) -> Mk(ISqrt(n), 0, x[3])
            [] x[2] = 0 /\ n % 3 = 0 /\ IsSquare(n \div 3) -> Mk(0, ISqrt(n \div 3), x[3])

---------------------------------------------------------------------------
(* Trigonometry on multiples of pi/6.                                      *)

\* np.pi, in units of pi/6
Pi == I(6)

Sqrt3Half == Mk(0, 1, 2)

\* cos(k*pi/6) for k = 0..11
CosTable ==
  <<One, Sqrt3Half, Half, Zero, Neg(Half), Neg(Sqrt3Half),
    Neg(One), Neg(Sqrt3Half), Neg(Half), Zero, Half, Sqrt3Half>>

IsWhole(x) == IsFinite(x) /\ x[2] = 0 /\ x[3] = 1

\* np.cos
Cos(x) ==
  CASE ~IsFinite(x) -> NaN
    [] IsWhole(x) -> CosTable[(x[1] % 12) + 1]

\* np.sin
Sin(x) ==
  CASE ~IsFinite(x) -> NaN
    [] IsWhole(x) -> CosTable[((x[1] - 3) % 12) + 1]

\* np.arccos: a value in [0, pi]; NaN outside [-1, 1]
Arccos(x) ==
  IF IsNaN(x) \/ Less(One, x) \/ Less(x, Neg(One)) THEN NaN
  ELSE I(CHOOSE k \in 0..6 : CosTable[k + 1] = x)

\* np.arctan2(y, x): the angle in (-pi, pi] of the point (x, y); 0 at the origin
Arctan2(y, x) ==
  IF IsNaN(x) \/ IsNaN(y) THEN NaN
  ELSE IF Sgn(x) = 0 /\ Sgn(y) = 0 THEN Zero
  ELSE I(CHOOSE k \in -5..6 :
           /\ Mul(x, Sin(I(k))) = Mul(y, Cos(I(k)))
           /\ Sgn(Add(Mul(x, Cos(I(k))), Mul(y, Sin(I(k))))) = 1)

---------------------------------------------------------------------------
(* Arrays: a vector is a tuple of numbers, a matrix a tuple of three rows. *)

VAdd(a, b) == [i \in DOMAIN a |-> Add(a[i], b[i])]
VSub(a, b) == [i \in DOMAIN a |-> Sub(a[i], b[i])]
VMul(a, b) == [i \in DOMAIN a |-> Mul(a[i], b[i])]
VNeg(a) == [i \in DOMAIN a |-> Neg(a[i])]
\* scalar * array
VScale(s, a) == [i \in DOMAIN a |-> Mul(s, a[i])]
\* array / scalar
VDiv(a, s) == [i \in DOMAIN a |-> Div(a[i], s)]

RECURSIVE SumTo(_, _)
SumTo(a, n) == IF n = 0 THEN Zero ELSE Add(SumTo(a, n - 1), a[n])

\* np.dot of two vectors
Dot(a, b) == SumTo(VMul(a, b), Len(a))

\* np.cross
Cross(a, b) ==
  <<Sub(Mul(a[2], b[3]), Mul(a[3], b[2])),
    Sub(Mul(a[3], b[1]), Mul(a[1], b[3])),
    Sub(Mul(a[1], b[2]), Mul(a[2], b[1]))>>

\* np.linalg.norm
Norm(v) == Sqrt(Dot(v, v))

\* np.eye(3)
Eye == <<<<One, Zero, Zero>>, <<Zero, One, Zero>>, <<Zero, Zero, One>>>>

\* R.T
Transpose(R) == [i \in 1..3 |-> [j \in 1..3 |-> R[j][i]]]

\* A.dot(B) for 3x3 matrices
MatMul(A, B) ==
  [i \in 1..3 |-> [j \in 1..3 |-> Dot(A[i], <<B[1][j], B[2][j], B[3][j]>>)]]

\* R.dot(v)
MatVec(R, v) == [i \in 1..3 |-> Dot(R[i], v)]

\* np.trace
Trace(R) == Add(Add(R[1][1], R[2][2]), R[3][3])

\* np.linalg.det
Det(R) ==
  Add(Sub(Mul(R[1][1], Sub(Mul(R[2][2], R[3][3]), Mul(R[2][3], R[3][2]))),
          Mul(R[1][2], Sub(Mul(R[2][1], R[3][3]), Mul(R[2][3], R[3][1])))),
      Mul(R[1][3], Sub(Mul(R[2][1], R[3][2]), Mul(R[2][2], R[3][1]))))

\* the entries of a matrix as one vector
Flat(R) == R[1] \o R[2] \o R[3]

\* elementwise == on arrays (NaN equals nothing)
VEq(a, b) == DOMAIN a = DOMAIN b /\ \A i \in DOMAIN a : NumEq(a[i], b[i])
MatEq(A, B) == VEq(Flat(A), Flat(B))

unitx == <<One, Zero, Zero>>
unity == <<Zero, One, Zero>>
unitz == <<Zero, Zero, One>>

\* a call's outcome: a returned value or a raised exception
Return(v) == [kind |-> "return", val |-> v]
Raise(e) == [kind |-> e, val |-> <<>>]

---------------------------------------------------------------------------
(* The library's functions, in the order of rotations.py.                  *)

\* v / np.linalg.norm(v)
norm_vector(v) == VDiv(v, Norm(v))

\* arccos of the normalised dot product for non-3d vectors (or fast=True),
\* arctan2(|a x b|, a . b) for 3d vectors
angle_between_vectors(a, b, fast) ==
  IF Len(a) # 3 \/ fast
    THEN Arccos(Div(Dot(a, b), Mul(Norm(a), Norm(b))))
    ELSE Arctan2(Norm(Cross(a, b)), Dot(a, b))

matrix_from_axis_angle(a) ==
  LET e == norm_vector(SubSeq(a, 1, 3))
      theta == a[4]
      ux == e[1]
      uy == e[2]
      uz == e[3]
      c == Cos(theta)
      s == Sin(theta)
      ci == Sub(One, c)
  IN <<<<Add(Mul(Mul(ci, ux), ux), c),
         Sub(Mul(Mul(ci, ux), uy), Mul(uz, s)),
         Add(Mul(Mul(ci, ux), uz), Mul(uy, s))>>,
       <<Add(Mul(Mul(ci, uy), ux), Mul(uz, s)),
         Add(Mul(Mul(ci, uy), uy), c),
         Sub(Mul(Mul(ci, uy), uz), Mul(ux, s))>>,
       <<Sub(Mul(Mul(ci, uz), ux), Mul(uy, s)),
         Add(Mul(Mul(ci, uz), uy), Mul(ux, s)),
         Add(Mul(Mul(ci, uz), uz), c)>>>>

\* matrix_from_quaternion with the normalisation left out
matrix_from_quaternion_unnormalized(q) ==
  LET w == q[1]
      x == q[2]
      y == q[3]
      z == q[4]
      x2 == Mul(Mul(Two, x), x)
      y2 == Mul(Mul(Two, y), y)
      z2 == Mul(Mul(Two, z), z)
      xy == Mul(Mul(Two, x), y)
      xz == Mul(Mul(Two, x), z)
      yz == Mul(Mul(Two, y), z)
      xw == Mul(Mul(Two, x), w)
      yw == Mul(Mul(Two, y), w)
      zw == Mul(Mul(Two, z), w)
  IN <<<<Sub(Sub(One, y2), z2), Sub(xy, zw), Add(xz, yw)>>,
       <<Add(xy, zw), Sub(Sub(One, x2), z2), Sub(yz, xw)>>,
       <<Sub(xz, yw), Add(yz, xw), Sub(Sub(One, x2), y2)>>>>

matrix_from_quaternion(q) ==
  LET uq == norm_vector(q)
      w == uq[1]
      x == uq[2]
      y == uq[3]
      z == uq[4]
      x2 == Mul(Mul(Two, x), x)
      y2 == Mul(Mul(Two, y), y)
      z2 == Mul(Mul(Two, z), z)
      xy == Mul(Mul(Two, x), y)
      xz == Mul(Mul(Two, x), z)
      yz == Mul(Mul(Two, y), z)
      xw == Mul(Mul(Two, x), w)
      yw == Mul(Mul(Two, y), w)
      zw == Mul(Mul(Two, z), w)
  IN <<<<Sub(Sub(One, y2), z2), Sub(xy, zw), Add(xz, yw)>>,
       <<Add(xy, zw), Sub(Sub(One, x2), z2), Sub(yz, xw)>>,
       <<Sub(xz, yw), Add(yz, xw), Sub(Sub(One, x2), y2)>>>>

\* matrix_from_angle with the z rotation as the last branch and no raise
matrix_from_angle_no_raise(basis, angle) ==
  LET c == Cos(angle)
      s == Sin(angle)
  IN IF basis = 0
       THEN Return(<<<<One, Zero, Zero>>, <<Zero, c, Neg(s)>>, <<Zero, s, c>>>>)
     ELSE IF basis = 1
       THEN Return(<<<<c, Zero, s>>, <<Zero, One, Zero>>, <<Neg(s), Zero, c>>>>)
     ELSE Return(<<<<c, Neg(s), Zero>>, <<s, c, Zero>>, <<Zero, Zero, One>>>>)

\* basis is a Python int; any value other than 0, 1, 2 raises ValueError
matrix_from_angle(basis, angle) ==
  LET c == Cos(angle)
      s == Sin(angle)
  IN IF basis = 0
       THEN Return(<<<<One, Zero, Zero>>, <<Zero, c, Neg(s)>>, <<Zero, s, c>>>>)
     ELSE IF basis = 1
       THEN Return(<<<<c, Zero, s>>, <<Zero, One, Zero>>, <<Neg(s), Zero, c>>>>)
     ELSE IF basis = 2
       THEN Return(<<<<c, Neg(s), Zero>>, <<s, c, Zero>>, <<Zero, Zero, One>>>>)
     ELSE Raise("ValueError")

\* the first of three calls that raised, if any: an exception propagates
FirstRaised(r1, r2, r3) ==
  IF r1.kind # "return" THEN r1 ELSE IF r2.kind # "return" THEN r2 ELSE r3

matrix_from_euler_xyz(e) ==
  LET alpha == e[1]
      beta == e[2]
      gamma == e[3]
      Qx == matrix_from_angle(0, alpha)
      Qy == matrix_from_angle(1, beta)
      Qz == matrix_from_angle(2, gamma)
  IN IF \E r \in {Qx, Qy, Qz} : r.kind # "return"
       THEN FirstRaised(Qx, Qy, Qz)
       ELSE Return(MatMul(MatMul(Qx.val, Qy.val), Qz.val))

\* matrix_from_euler_zyx reading the triple as (alpha, beta, gamma), like xyz
matrix_from_euler_zyx_x_first(e) ==
  LET alpha == e[1]
      beta == e[2]
      gamma == e[3]
      Qz == matrix_from_angle(2, gamma)
      Qy == matrix_from_angle(1, beta)
      Qx == matrix_from_angle(0, alpha)
  IN IF \E r \in {Qx, Qy, Qz} : r.kind # "return"
       THEN FirstRaised(Qz, Qy, Qx)
       ELSE Return(MatMul(MatMul(Qz.val, Qy.val), Qx.val))

matrix_from_euler_zyx(e) ==
  LET gamma == e[1]
      beta == e[2]
      alpha == e[3]
      Qz == matrix_from_angle(2, gamma)
      Qy == matrix_from_angle(1, beta)
      Qx == matrix_from_angle(0, alpha)
  IN IF \E r \in {Qx, Qy, Qz} : r.kind # "return"
       THEN FirstRaised(Qz, Qy, Qx)
       ELSE Return(MatMul(MatMul(Qz.val, Qy.val), Qx.val))

axis_angle_from_matrix(R) ==
  IF \A i \in 1..3 : \A j \in 1..3 : NumEq(R[i][j], Eye[i][j])
    THEN Return(<<Zero, Zero, Zero, Zero>>)
    ELSE LET angle == Arccos(Div(Sub(Trace(R), One), Two))
             r == <<Sub(R[3][2], R[2][3]), Sub(R[1][3], R[3][1]), Sub(R[2][1], R[1][2])>>
             axis == VDiv(r, Mul(Two, Sin(angle)))
         IN IF GreaterEq(angle, Pi)
              THEN Raise("Exception")
              ELSE Return(axis \o <<angle>>)

\* x < np.finfo(float).eps (2^-52): of the model's norms only 0 is below it
BelowEps(x) == ~IsNaN(x) /\ Sgn(x) <= 0

axis_angle_from_quaternion(q) ==
  LET p == SubSeq(q, 2, 4)
      p_norm == Norm(p)
  IN IF BelowEps(p_norm)
       THEN <<One, Zero, Zero, Zero>>
       ELSE LET axis == VDiv(p, p_norm)
                angle == Mul(Two, Arccos(q[1]))
            IN axis \o <<angle>>

\* quaternion_from_matrix with the difference for x taken the other way round
quaternion_from_matrix_x_flipped(R) ==
  LET q0 == Mul(Half, Sqrt(Add(One, Trace(R))))
      q1 == Mul(Div(Quarter, q0), Sub(R[2][3], R[3][2]))
      q2 == Mul(Div(Quarter, q0), Sub(R[1][3], R[3][1]))
      q3 == Mul(Div(Quarter, q0), Sub(R[2][1], R[1][2]))
  IN <<q0, q1, q2, q3>>

quaternion_from_matrix(R) ==
  LET q0 == Mul(Half, Sqrt(Add(One, Trace(R))))
      q1 == Mul(Div(Quarter, q0), Sub(R[3][2], R[2][3]))
      q2 == Mul(Div(Quarter, q0), Sub(R[1][3], R[3][1]))
      q3 == Mul(Div(Quarter, q0), Sub(R[2][1], R[1][2]))
  IN <<q0, q1, q2, q3>>

\* concatenate_quaternions with the cross product's operands exchanged
concatenate_quaternions_cross_swapped(q1, q2) ==
  LET v1 == SubSeq(q1, 2, 4)
      v2 == SubSeq(q2, 2, 4)
      w == Sub(Mul(q1[1], q2[1]), Dot(v1, v2))
      v == VAdd(VAdd(VScale(q1[1], v2), VScale(q2[1], v1)), Cross(v2, v1))
  IN <<w>> \o v

concatenate_quaternions(q1, q2) ==
  LET v1 == SubSeq(q1, 2, 4)
      v2 == SubSeq(q2, 2, 4)
      w == Sub(Mul(q1[1], q2[1]), Dot(v1, v2))
      v == VAdd(VAdd(VScale(q1[1], v2), VScale(q2[1], v1)), Cross(v1, v2))
  IN <<w>> \o v

q_prod_vector(q, v) ==
  LET t == VScale(Two, Cross(SubSeq(q, 2, 4), v))
  IN VAdd(VAdd(v, VScale(q[1], t)), Cross(SubSeq(q, 2, 4), t))

\* axis_angle_slerp with the two sine weights exchanged
axis_angle_slerp_weights_swapped(start, end, t) ==
  LET omega == angle_between_vectors(SubSeq(start, 1, 3), SubSeq(end, 1, 3), FALSE)
      w1 == Div(Sin(Mul(t, omega)), Sin(omega))
      w2 == Div(Sin(Mul(Sub(One, t), omega)), Sin(omega))
      W1 == <<w1, w1, w1, Sub(One, t)>>
      W2 == <<w2, w2, w2, t>>
  IN VAdd(VMul(W1, start), VMul(W2, end))

axis_angle_slerp(start, end, t) ==
  LET omega == angle_between_vectors(SubSeq(start, 1, 3), SubSeq(end, 1, 3), FALSE)
      w1 == Div(Sin(Mul(Sub(One, t), omega)), Sin(omega))
      w2 == Div(Sin(Mul(t, omega)), Sin(omega))
      W1 == <<w1, w1, w1, Sub(One, t)>>
      W2 == <<w2, w2, w2, t>>
  IN VAdd(VMul(W1, start), VMul(W2, end))

quaternion_slerp(start, end, t) ==
  LET omega == angle_between_vectors(start, end, FALSE)
      w1 == Div(Sin(Mul(Sub(One, t), omega)), Sin(omega))
      w2 == Div(Sin(Mul(t, omega)), Sin(omega))
  IN VAdd(VScale(w1, start), VScale(w2, end))

---------------------------------------------------------------------------
(* Inputs.  Exact sample points: integer vectors with coordinates -1, 0, 1 *)
(* whose norm lies in Q(sqrt 3), normalised; every multiple of pi/6.       *)

Signs == {-1, 0, 1}

IntVectors(n, S) == {[i \in 1..n |-> I(f[i])] : f \in [1..n -> S]}

\* the squared norm of an integer vector, as an integer
NormSq(v) == Dot(v, v)[1]

\* a nonzero vector whose norm is in Q(sqrt 3)
Normalizable(v) ==
  /\ NormSq(v) > 0
  /\ \/ IsSquare(NormSq(v))
     \/ NormSq(v) % 3 = 0 /\ IsSquare(NormSq(v) \div 3)

\* 14 unit axes: +-e_i and (+-1, +-1, +-1)/sqrt 3
UnitAxes == {norm_vector(v) : v \in {u \in IntVectors(3, Signs) : Normalizable(u)}}

\* 56 unit quaternions: 8 with one entry +-1, 16 with entries +-1/2,
\* 32 with three entries +-1/sqrt 3
UnitQuats == {norm_vector(q) : q \in {u \in IntVectors(4, Signs) : Normalizable(u)}}

\* the 24 unit quaternions with entries in {0, +-1/2, +-1}
HurwitzQuats == {q \in UnitQuats : \A i \in 1..4 : q[i][2] = 0}

\* angles k*pi/6, one full turn
Angles == {I(k) : k \in 0..11}

\* vectors to rotate: integer coordinates from -1 to MaxCoord
Vectors == IntVectors(3, -1..MaxCoord)

\* the module's state after import: the default RandomState(0) that each
\* sampling function's signature creates once (lines 73, 92, 111)
RandomState(seed) == [seed |-> seed, pos |-> 0]

DefaultRS ==
  [random_vector |-> RandomState(0),
   random_axis_angle |-> RandomState(0),
   random_quaternion |-> RandomState(0)]

---------------------------------------------------------------------------
(* Composition: a caller composes two unit quaternions and rotates a       *)
(* vector by the product, and rotates the vector by each in turn.          *)

InitC1 ==
  /\ pc = "start"
  /\ inp \in [q1 : UnitQuats, q2 : HurwitzQuats, v : Vectors]
  /\ out = [q12 |-> <<>>, lhs |-> <<>>, inner |-> <<>>, rhs |-> <<>>]
  /\ rs = DefaultRS

\* the two quaternions composed, and the product applied to the vector
RotateComposed ==
  /\ pc = "start"
  /\ LET q12 == concatenate_quaternions(inp.q1, inp.q2)
     IN out' = [out EXCEPT !.q12 = q12, !.lhs = q_prod_vector(q12, inp.v)]
  /\ pc' = "rotated"
  /\ UNCHANGED <<inp, rs>>

\* the two rotations applied one after the other: q2 first, then q1
RotateSequential ==
  /\ pc = "rotated"
  /\ LET inner == q_prod_vector(inp.q2, inp.v)
     IN out' = [out EXCEPT !.inner = inner, !.rhs = q_prod_vector(inp.q1, inner)]
  /\ pc' = "done"
  /\ UNCHANGED <<inp, rs>>

NextC1 == RotateComposed \/ RotateSequential

SpecC1 == InitC1 /\ [][NextC1]_vars

\* C1: rotating by concatenate_quaternions(q1, q2) equals rotating by q2 and
\* then by q1, exactly, for unit quaternions and bounded integer vectors
CompositionConsistency ==
  pc = "done" => VEq(out.lhs, out.rhs)

\* a pair of non-commuting quaternions with w # 0 has been composed and applied
\* to a vector that the rotation moves
WitnessC1 ==
  /\ pc = "done"
  /\ inp.q1[1] = Half /\ inp.q2[1] = Half
  /\ concatenate_quaternions(inp.q1, inp.q2) # concatenate_quaternions(inp.q2, inp.q1)
  /\ out.lhs # inp.v
  /\ VEq(out.lhs, out.rhs)

---------------------------------------------------------------------------
(* Quaternion round trip: quaternion -> matrix -> quaternion.              *)

InitC2 ==
  /\ pc = "start"
  /\ inp \in [q : UnitQuats]
  /\ out = [R |-> <<>>, q |-> <<>>]
  /\ rs = DefaultRS

ToMatrix ==
  /\ pc = "start"
  /\ out' = [out EXCEPT !.R = matrix_from_quaternion(inp.q)]
  /\ pc' = "matrix"
  /\ UNCHANGED <<inp, rs>>

BackToQuaternion ==
  /\ pc = "matrix"
  /\ out' = [out EXCEPT !.q = quaternion_from_matrix(out.R)]
  /\ pc' = "done"
  /\ UNCHANGED <<inp, rs>>

NextC2 == ToMatrix \/ BackToQuaternion

SpecC2 == InitC2 /\ [][NextC2]_vars

\* the round trip returned q or -q (elementwise float equality: no NaN)
RoundTripUpToSign == VEq(out.q, inp.q) \/ VEq(out.q, VNeg(inp.q))

\* C2 as stated: for every unit quaternion with w >= 0, w = 0 included,
\* quaternion_from_matrix(matrix_from_quaternion(q)) is q or -q
QuaternionRoundTripClosed ==
  (pc = "done" /\ Sgn(inp.q[1]) >= 0) => RoundTripUpToSign

\* C2 amended: for every unit quaternion with w > 0,
\* quaternion_from_matrix(matrix_from_quaternion(q)) is q or -q
QuaternionRoundTripOpen ==
  (pc = "done" /\ Sgn(inp.q[1]) > 0) => RoundTripUpToSign

\* a quaternion with w > 0 and an irrational vector part made the round trip
WitnessC2 ==
  /\ pc = "done"
  /\ Sgn(inp.q[1]) > 0
  /\ inp.q[2][2] # 0 /\ Sgn(inp.q[3]) < 0
  /\ out.q = inp.q

---------------------------------------------------------------------------
(* Canonical axis-angle: one call of axis_angle_from_matrix or of          *)
(* axis_angle_from_quaternion.                                             *)

\* rotations about a coordinate axis by a multiple of pi/6
AxisRotations == {matrix_from_angle(b, a).val : b \in 0..2, a \in Angles}

\* the rotations of the 24 quaternions with entries in {0, +-1/2, +-1}
HurwitzRotations == {matrix_from_quaternion(q) : q \in HurwitzQuats}

\* unit quaternions (cos k, sin k * e_i), k a multiple of pi/6
AxisQuats ==
  {<<Cos(k)>> \o VScale(Sin(k), e) : k \in Angles, e \in {unitx, unity, unitz}}

InitC3 ==
  /\ pc = "start"
  /\ inp \in [fn : {"axis_angle_from_matrix"}, arg : AxisRotations \cup HurwitzRotations]
            \cup [fn : {"axis_angle_from_quaternion"}, arg : AxisQuats \cup HurwitzQuats]
  /\ out = Return(<<>>)
  /\ rs = DefaultRS

CallAxisAngleFromMatrix ==
  /\ pc = "start"
  /\ inp.fn = "axis_angle_from_matrix"
  /\ out' = axis_angle_from_matrix(inp.arg)
  /\ pc' = "done"
  /\ UNCHANGED <<inp, rs>>

CallAxisAngleFromQuaternion ==
  /\ pc = "start"
  /\ inp.fn = "axis_angle_from_quaternion"
  /\ out' = Return(axis_angle_from_quaternion(inp.arg))
  /\ pc' = "done"
  /\ UNCHANGED <<inp, rs>>

NextC3 == CallAxisAngleFromMatrix \/ CallAxisAngleFromQuaternion

SpecC3 == InitC3 /\ [][NextC3]_vars

\* C3: every axis-angle returned by axis_angle_from_matrix or by
\* axis_angle_from_quaternion has its angle in [0, pi)
CanonicalAngleRange ==
  (pc = "done" /\ out.kind = "return")
    => GreaterEq(out.val[4], Zero) /\ Less(out.val[4], Pi)

---------------------------------------------------------------------------
(* Rotation-matrix invariants: one call of a conversion to a matrix.       *)

\* an axis or a quaternion scaled away from unit length
Scaled(S) == {VScale(I(k), v) : v \in S, k \in 1..MaxScale}

\* axes: unit ones, and integer ones of norm k and k*sqrt 3
AxisInputs ==
  UnitAxes \cup Scaled({u \in IntVectors(3, Signs) : Normalizable(u)})

\* quaternions: unit ones, and integer ones of norm k, 2k and k*sqrt 3
QuatInputs ==
  UnitQuats \cup Scaled({u \in IntVectors(4, Signs) : Normalizable(u)})

EulerTriples == {<<a, b, c>> : a \in Angles, b \in Angles, c \in Angles}

InitC4 ==
  /\ pc = "start"
  /\ inp \in [fn : {"matrix_from_axis_angle"},
              arg : {ax \o <<a>> : ax \in AxisInputs, a \in Angles}]
            \cup [fn : {"matrix_from_quaternion"}, arg : QuatInputs]
            \cup [fn : {"matrix_from_euler_xyz", "matrix_from_euler_zyx"},
                  arg : EulerTriples]
  /\ out = Return(<<>>)
  /\ rs = DefaultRS

CallMatrixFromAxisAngle ==
  /\ pc = "start"
  /\ inp.fn = "matrix_from_axis_angle"
  /\ out' = Return(matrix_from_axis_angle(inp.arg))
  /\ pc' = "done"
  /\ UNCHANGED <<inp, rs>>

CallMatrixFromQuaternion ==
  /\ pc = "start"
  /\ inp.fn = "matrix_from_quaternion"
  /\ out' = Return(matrix_from_quaternion(inp.arg))
  /\ pc' = "done"
  /\ UNCHANGED <<inp, rs>>

CallMatrixFromEulerXyz ==
  /\ pc = "start"
  /\ inp.fn = "matrix_from_euler_xyz"
  /\ out' = matrix_from_euler_xyz(inp.arg)
  /\ pc' = "done"
  /\ UNCHANGED <<inp, rs>>

CallMatrixFromEulerZyx ==
  /\ pc = "start"
  /\ inp.fn = "matrix_from_euler_zyx"
  /\ out' = matrix_from_euler_zyx(inp.arg)
  /\ pc' = "done"
  /\ UNCHANGED <<inp, rs>>

NextC4 ==
  \/ CallMatrixFromAxisAngle
  \/ CallMatrixFromQuaternion
  \/ CallMatrixFromEulerXyz
  \/ CallMatrixFromEulerZyx

SpecC4 == InitC4 /\ [][NextC4]_vars

\* R * R^T = I and det(R) = 1
IsRotationMatrix(R) ==
  /\ MatEq(MatMul(R, Transpose(R)), Eye)
  /\ NumEq(Det(R), One)

\* C4: the matrix returned for any axis-angle (unit axis or not), any
\* quaternion (unit or not) and any Euler triple, in either convention, is a
\* rotation matrix: R * R^T = I and det(R) = 1
InvariantPreservation ==
  pc = "done" => out.kind = "return" /\ IsRotationMatrix(out.val)

\* a quaternion of irrational norm sqrt 3 was converted to a rotation that is
\* not the identity
WitnessC4 ==
  /\ pc = "done"
  /\ inp.fn = "matrix_from_quaternion"
  /\ NormSq(inp.arg) = 3
  /\ out.kind = "return" /\ out.val # Eye
  /\ IsRotationMatrix(out.val)

---------------------------------------------------------------------------
(* Slerp at the ends of the interval: one call with t = 0 or t = 1.        *)

\* the six axes +-e_i: the angle between any two is a multiple of pi/2
CoordAxes == {a \in UnitAxes : \A i \in 1..3 : a[i][2] = 0}

\* Pairs of opposite axes or quaternions are left out: there omega is np.pi,
\* and np.sin(np.pi) is 1.2e-16 in doubles where exact arithmetic gives 0, so
\* the exact quotient sin(omega)/sin(omega) would not be the code's.
Opposite(a, b) == a = VNeg(b)

AxisAngles == {ax \o <<a>> : ax \in CoordAxes, a \in Angles}

InitC5 ==
  /\ pc = "start"
  /\ inp \in {i \in [fn : {"axis_angle_slerp"}, start : AxisAngles,
                     end : AxisAngles, t : {Zero, One}] :
                ~Opposite(SubSeq(i.start, 1, 3), SubSeq(i.end, 1, 3))}
            \cup {i \in [fn : {"quaternion_slerp"}, start : HurwitzQuats,
                         end : HurwitzQuats, t : {Zero, One}] :
                    ~Opposite(i.start, i.end)}
  /\ out = <<>>
  /\ rs = DefaultRS

CallAxisAngleSlerp ==
  /\ pc = "start"
  /\ inp.fn = "axis_angle_slerp"
  /\ out' = axis_angle_slerp(inp.start, inp.end, inp.t)
  /\ pc' = "done"
  /\ UNCHANGED <<inp, rs>>

CallQuaternionSlerp ==
  /\ pc = "start"
  /\ inp.fn = "quaternion_slerp"
  /\ out' = quaternion_slerp(inp.start, inp.end, inp.t)
  /\ pc' = "done"
  /\ UNCHANGED <<inp, rs>>

NextC5 == CallAxisAngleSlerp \/ CallQuaternionSlerp

SpecC5 == InitC5 /\ [][NextC5]_vars

\* the call returned start at t = 0 and end at t = 1
AtBoundary ==
  /\ inp.t = Zero => VEq(out, inp.start)
  /\ inp.t = One => VEq(out, inp.end)

\* the interpolated directions: the axes of an axis-angle pair, the
\* quaternions themselves otherwise
Direction(a) == IF inp.fn = "axis_angle_slerp" THEN SubSeq(a, 1, 3) ELSE a

\* the two directions coincide or are opposite: sin(omega) = 0
Degenerate ==
  \/ Direction(inp.start) = Direction(inp.end)
  \/ Opposite(Direction(inp.start), Direction(inp.end))

---------------------------------------------------------------------------
(* Sampling.  A RandomState is abstracted to its seed and the number of    *)
(* values drawn from it.  A drawn value is a symbol: which method drew it, *)
(* from which seed, at which index of the stream, and what the function    *)
(* did to it; distinct indices stand for distinct values of the stream.    *)
(***************************************************************************)

\* the i-th value a method draws from a RandomState in state st
Draw(kind, st, i) == [draw |-> kind, seed |-> st.seed, at |-> st.pos + i, as |-> "drawn"]

\* the RandomState after n draws
Advance(st, n) == [st EXCEPT !.pos = st.pos + n]

\* random_state.randn(n)
randn(st, n) == [ret |-> [i \in 1..n |-> Draw("randn", st, i)], state |-> Advance(st, n)]

\* random_state.rand()
rand(st) == [ret |-> Draw("rand", st, 1), state |-> Advance(st, 1)]

\* norm_vector of drawn values: each component, divided by the norm of all
NormalizedDraws(v) == [i \in DOMAIN v |-> [v[i] EXCEPT !.as = "normalized"]]

\* np.pi * a drawn value
PiTimes(u) == [u EXCEPT !.as = "times_pi"]

\* each returns the value and the state the RandomState is left in
random_vector(random_state, n) == randn(random_state, n)

random_axis_angle(random_state) ==
  LET u == rand(random_state)
      g == randn(u.state, 3)
  IN [ret |-> NormalizedDraws(g.ret) \o <<PiTimes(u.ret)>>, state |-> g.state]

random_quaternion(random_state) ==
  LET g == randn(random_state, 4)
  IN [ret |-> NormalizedDraws(g.ret), state |-> g.state]

\* the RandomState a call draws from: the function's own default when the
\* caller passes none, the caller's object otherwise
Source(fn, src) == IF src = "default" THEN rs[fn] ELSE inp.own

\* the call as its caller sees it: the function, the arguments (the state of
\* the RandomState passed, if one is), the value returned
Observed(fn, src, n, ret) ==
  [fn |-> fn,
   random_state |-> IF src = "default" THEN <<>> ELSE <<inp.own>>,
   n |-> n,
   ret |-> ret]

\* the effect of a call: the RandomState drawn from is advanced in place
Sampled(fn, src, n, r) ==
  /\ Cardinality(out) < MaxCalls
  /\ out' = out \cup {Observed(fn, src, n, r.ret)}
  /\ IF src = "default"
       THEN rs' = [rs EXCEPT ![fn] = r.state] /\ inp' = inp
       ELSE inp' = [inp EXCEPT !.own = r.state] /\ rs' = rs
  /\ pc' = "called"

InitC6 ==
  /\ pc = "imported"
  /\ inp = [own |-> RandomState(0)]
  /\ out = {}
  /\ rs = DefaultRS

\* the caller makes a RandomState of its own
NewRandomState ==
  /\ \E seed \in 0..1 : inp' = [inp EXCEPT !.own = RandomState(seed)]
  /\ UNCHANGED <<pc, out, rs>>

CallRandomVector ==
  \E src \in {"default", "own"}, n \in 2..3 :
    Sampled("random_vector", src, n, random_vector(Source("random_vector", src), n))

CallRandomAxisAngle ==
  \E src \in {"default", "own"} :
    Sampled("random_axis_angle", src, 0,
            random_axis_angle(Source("random_axis_angle", src)))

CallRandomQuaternion ==
  \E src \in {"default", "own"} :
    Sampled("random_quaternion", src, 0,
            random_quaternion(Source("random_quaternion", src)))

NextC6 ==
  \/ NewRandomState
  \/ CallRandomVector
  \/ CallRandomAxisAngle
  \/ CallRandomQuaternion

SpecC6 == InitC6 /\ [][NextC6]_vars

\* C6: the value a sampling call returns depends only on its arguments (the
\* state of the RandomState passed, if any, and n): two calls of the same
\* function with identical arguments, with none included, return the same
NoHiddenState ==
  \A c1 \in out : \A c2 \in out :
    (c1.fn = c2.fn /\ c1.random_state = c2.random_state /\ c1.n = c2.n)
      => c1.ret = c2.ret

---------------------------------------------------------------------------
(* The assertion helpers.                                                  *)

RECURSIVE Pow10(_)
Pow10(n) == IF n = 0 THEN 1 ELSE 10 * Pow10(n - 1)

\* the tolerance of numpy.testing.assert_array_almost_equal: 1.5 * 10**(-decimal)
Tolerance(decimal) == Rat(3, 2 * Pow10(decimal))

\* numpy.testing.assert_array_almost_equal(actual, desired, decimal) passes:
\* NaN and Inf must sit at the same places, the other entries must differ by
\* less than the tolerance
assert_array_almost_equal(actual, desired, decimal) ==
  \A i \in DOMAIN actual :
    IF ~IsFinite(actual[i]) \/ ~IsFinite(desired[i])
      THEN actual[i] = desired[i]
      ELSE Less(AbsNum(Sub(desired[i], actual[i])), Tolerance(decimal))

\* the default of assert_array_almost_equal's decimal parameter
DefaultDecimal == 6

\* assert_quaternion_equal without the second comparison
assert_quaternion_equal_no_retry(q1, q2, decimal) ==
  IF assert_array_almost_equal(q1, q2, decimal)
    THEN Return(<<>>)
    ELSE Raise("AssertionError")

\* try the comparison with q2, and on AssertionError the one with -q2;
\* the caller's decimal is handed on to both
assert_quaternion_equal(q1, q2, decimal) ==
  IF assert_array_almost_equal(q1, q2, decimal)
    THEN Return(<<>>)
  ELSE IF assert_array_almost_equal(q1, VNeg(q2), decimal)
    THEN Return(<<>>)
  ELSE Raise("AssertionError")

\* the caller's decimal (*args, **kwargs) is not handed on: both comparisons
\* run with the default
assert_rotation_matrix(R, decimal) ==
  IF ~assert_array_almost_equal(Flat(MatMul(R, Transpose(R))), Flat(Eye), DefaultDecimal)
    THEN Raise("AssertionError")
  ELSE IF ~assert_array_almost_equal(<<Det(R)>>, <<One>>, DefaultDecimal)
    THEN Raise("AssertionError")
  ELSE Return(<<>>)

\* the decimals a caller passes
Decimals == {0, 3, DefaultDecimal}

---------------------------------------------------------------------------
(* Double cover: a caller compares two unit quaternions and converts the   *)
(* first and its negation to matrices.                                     *)

InitC7 ==
  /\ pc = "start"
  /\ inp \in [q1 : UnitQuats, q2 : UnitQuats, decimal : {3, DefaultDecimal}]
  /\ out = [equal |-> Return(<<>>), R |-> <<>>, Rneg |-> <<>>]
  /\ rs = DefaultRS

CallAssertQuaternionEqual ==
  /\ pc = "start"
  /\ out' = [out EXCEPT !.equal = assert_quaternion_equal(inp.q1, inp.q2, inp.decimal)]
  /\ pc' = "compared"
  /\ UNCHANGED <<inp, rs>>

MatrixOfQuaternion ==
  /\ pc = "compared"
  /\ out' = [out EXCEPT !.R = matrix_from_quaternion(inp.q1)]
  /\ pc' = "converted"
  /\ UNCHANGED <<inp, rs>>

MatrixOfNegation ==
  /\ pc = "converted"
  /\ out' = [out EXCEPT !.Rneg = matrix_from_quaternion(VNeg(inp.q1))]
  /\ pc' = "done"
  /\ UNCHANGED <<inp, rs>>

NextC7 == CallAssertQuaternionEqual \/ MatrixOfQuaternion \/ MatrixOfNegation

SpecC7 == InitC7 /\ [][NextC7]_vars

\* C7: assert_quaternion_equal(q1, q2) passes exactly when q1 = q2 or
\* q1 = -q2, so it passes for (q, -q); and q and -q have the same matrix
DoubleCover ==
  /\ pc # "start" =>
       /\ inp.q2 = VNeg(inp.q1) => out.equal.kind = "return"
       /\ out.equal.kind = "return" <=> (inp.q1 = inp.q2 \/ inp.q1 = VNeg(inp.q2))
  /\ pc = "done" => MatEq(out.R, out.Rneg)

\* q and -q, with q not its own negation's equal, compared and both converted
WitnessC7 ==
  /\ pc = "done"
  /\ inp.q2 = VNeg(inp.q1)
  /\ inp.q2 # inp.q1
  /\ out.equal.kind = "return"
  /\ out.R = out.Rneg /\ out.R # Eye

---------------------------------------------------------------------------
(* Euler conventions: both conversions applied to one triple.              *)

InitC8 ==
  /\ pc = "start"
  /\ inp \in [e : EulerTriples]
  /\ out = [zyx |-> Return(<<>>), xyz |-> Return(<<>>)]
  /\ rs = DefaultRS

ConvertZyx ==
  /\ pc = "start"
  /\ out' = [out EXCEPT !.zyx = matrix_from_euler_zyx(inp.e)]
  /\ pc' = "zyx"
  /\ UNCHANGED <<inp, rs>>

ConvertXyz ==
  /\ pc = "zyx"
  /\ out' = [out EXCEPT !.xyz = matrix_from_euler_xyz(inp.e)]
  /\ pc' = "done"
  /\ UNCHANGED <<inp, rs>>

NextC8 == ConvertZyx \/ ConvertXyz

SpecC8 == InitC8 /\ [][NextC8]_vars

\* the product of the elementary rotations about axes b1, b2, b3 by the
\* first, second and third component of e
ElementaryProduct(b1, b2, b3, e) ==
  MatMul(MatMul(matrix_from_angle(b1, e[1]).val, matrix_from_angle(b2, e[2]).val),
         matrix_from_angle(b3, e[3]).val)

\* C8: matrix_from_euler_zyx(e) is Rz(e[0]) Ry(e[1]) Rx(e[2]) and
\* matrix_from_euler_xyz(e) is Rx(e[0]) Ry(e[1]) Rz(e[2])
EulerIndexMapping ==
  /\ pc \in {"zyx", "done"} =>
       /\ out.zyx.kind = "return"
       /\ MatEq(out.zyx.val, ElementaryProduct(2, 1, 0, inp.e))
       \* the first component alone turns about z, the last alone about x
       /\ (inp.e[2] = Zero /\ inp.e[3] = Zero) => MatVec(out.zyx.val, unitz) = unitz
       /\ (inp.e[1] = Zero /\ inp.e[2] = Zero) => MatVec(out.zyx.val, unitx) = unitx
  /\ pc = "done" =>
       /\ out.xyz.kind = "return"
       /\ MatEq(out.xyz.val, ElementaryProduct(0, 1, 2, inp.e))
       /\ (inp.e[2] = Zero /\ inp.e[3] = Zero) => MatVec(out.xyz.val, unitx) = unitx
       /\ (inp.e[1] = Zero /\ inp.e[2] = Zero) => MatVec(out.xyz.val, unitz) = unitz

\* a triple for which the two conventions return different matrices
WitnessC8 ==
  /\ pc = "done"
  /\ out.zyx.kind = "return" /\ out.xyz.kind = "return"
  /\ out.zyx.val # out.xyz.val
  /\ MatEq(out.zyx.val, ElementaryProduct(2, 1, 0, inp.e))

---------------------------------------------------------------------------
(* assert_rotation_matrix with a tolerance chosen by the caller.           *)

\* R with eps added to its entry in row 1, column 2
Sheared(R, eps) == [R EXCEPT ![1][2] = Add(R[1][2], eps)]

\* rotations about a coordinate axis by a multiple of pi/2
QuarterTurns == {R \in AxisRotations : \A i \in 1..3 : \A j \in 1..3 : IsWhole(R[i][j])}

\* rotation matrices, and matrices a tenth away from one
MatrixInputs ==
  AxisRotations \cup {Sheared(R, Rat(1, 10)) : R \in QuarterTurns}

InitC9 ==
  /\ pc = "start"
  /\ inp \in [R : MatrixInputs, decimal : Decimals]
  /\ out = Return(<<>>)
  /\ rs = DefaultRS

CallAssertRotationMatrix ==
  /\ pc = "start"
  /\ out' = assert_rotation_matrix(inp.R, inp.decimal)
  /\ pc' = "done"
  /\ UNCHANGED <<inp, rs>>

NextC9 == CallAssertRotationMatrix

SpecC9 == InitC9 /\ [][NextC9]_vars

\* C9: assert_rotation_matrix(R, decimal) passes if and only if R * R^T is I
\* and det(R) is 1 within the tolerance the caller passed
ToleranceDecides ==
  pc = "done" =>
    (out.kind = "return" <=>
       /\ assert_array_almost_equal(Flat(MatMul(inp.R, Transpose(inp.R))), Flat(Eye),
                                    inp.decimal)
       /\ assert_array_almost_equal(<<Det(inp.R)>>, <<One>>, inp.decimal))

---------------------------------------------------------------------------
(* Basis index: one call of matrix_from_angle, or of an Euler conversion.  *)

InitC10 ==
  /\ pc = "start"
  /\ inp \in [fn : {"matrix_from_angle"}, basis : -1..MaxBasis, angle : Angles]
            \cup [fn : {"matrix_from_euler_xyz", "matrix_from_euler_zyx"},
                  e : EulerTriples]
  /\ out = Return(<<>>)
  /\ rs = DefaultRS

CallMatrixFromAngle ==
  /\ pc = "start"
  /\ inp.fn = "matrix_from_angle"
  /\ out' = matrix_from_angle(inp.basis, inp.angle)
  /\ pc' = "done"
  /\ UNCHANGED <<inp, rs>>

CallEulerXyz ==
  /\ pc = "start"
  /\ inp.fn = "matrix_from_euler_xyz"
  /\ out' = matrix_from_euler_xyz(inp.e)
  /\ pc' = "done"
  /\ UNCHANGED <<inp, rs>>

CallEulerZyx ==
  /\ pc = "start"
  /\ inp.fn = "matrix_from_euler_zyx"
  /\ out' = matrix_from_euler_zyx(inp.e)
  /\ pc' = "done"
  /\ UNCHANGED <<inp, rs>>

NextC10 == CallMatrixFromAngle \/ CallEulerXyz \/ CallEulerZyx

SpecC10 == InitC10 /\ [][NextC10]_vars

\* the unit vector of axis b (0: x, 1: y, 2: z)
BasisVector(b) == [i \in 1..3 |-> IF i = b + 1 THEN One ELSE Zero]

\* R turns by angle about axis b: it fixes e_b and turns e_(b+1) towards e_(b+2)
IsElementaryRotation(R, b, angle) ==
  LET u == BasisVector((b + 1) % 3)
      w == BasisVector((b + 2) % 3)
  IN /\ MatVec(R, BasisVector(b)) = BasisVector(b)
     /\ MatVec(R, u) = VAdd(VScale(Cos(angle), u), VScale(Sin(angle), w))
     /\ MatVec(R, w) = VSub(VScale(Cos(angle), w), VScale(Sin(angle), u))

\* C10: matrix_from_angle returns the elementary rotation exactly when basis
\* is 0, 1 or 2 and raises ValueError, returning nothing, otherwise; the Euler
\* conversions never raise
InvalidBasis ==
  pc = "done" =>
    IF inp.fn = "matrix_from_angle"
      THEN /\ out.kind = "return" <=> inp.basis \in {0, 1, 2}
           /\ out.kind = "return" => IsElementaryRotation(out.val, inp.basis, inp.angle)
           /\ inp.basis \notin {0, 1, 2} => out = Raise("ValueError")
      ELSE out.kind = "return"

\* a call with a basis index above 2 raised ValueError
WitnessC10 ==
  /\ pc = "done"
  /\ inp.fn = "matrix_from_angle"
  /\ inp.basis > 2
  /\ out = Raise("ValueError")

====
